---------------------------- MODULE Spec2Model ----------------------------
(***************************************************************************)
(* A model of mupif's Field (src/mupif/Field.py): a scalar, vector or      *)
(* tensor quantity stored per vertex or per cell of a mesh, evaluated at   *)
(* spatial points, read and written by index, and merged with another      *)
(* field, stored to an HDF5 group and loaded back from it.                 *)
(*                                                                         *)
(* Mesh, Cell, BBox, the cell localizer and ValueType are modules of the   *)
(* repository that Field.py imports but that are not part of the sources   *)
(* at hand.  They are modelled from the specification's MeshAdapter        *)
(* interface as a one-dimensional mesh of two-vertex segment cells, and    *)
(* the mesh's HDF5 subgroup from the specification's persistent layout.    *)
(*                                                                         *)
(* Python values are represented as follows.  A value record (a tuple) is  *)
(* a sequence of integers.  A number obtained by a division is a pair      *)
(* <<numerator, denominator>>, compared by RatEq.  Sequence positions are  *)
(* 1-based here and 0-based in the source: entity number n is element n+1. *)
(* The outcome of a call is a record [kind, exc, ret]: kind "value" with   *)
(* the returned sequence in ret, kind "None" for a call that returns       *)
(* nothing, kind "raise" with the exception's name in exc.                 *)
(***************************************************************************)
EXTENDS Integers, Sequences, FiniteSets, TLC

VARIABLES heap, fields, last, pre, hdf

vars == <<heap, fields, last, pre, hdf>>

(***************************************************************************)
(* Bounds of the model.                                                    *)
(***************************************************************************)
\* field subgroups written to the file in one behaviour
MaxStores == 3
\* mesh objects built by loading in one behaviour
MaxLoaded == 3
\* positions passed to evaluate in one list
MaxList == 2
\* positions evaluated are 1 .. MaxPos
MaxPos == 5
\* tolerances evaluated are 0 .. MaxEps
MaxEps == 1
\* merges performed in one behaviour
MaxMerges == 2
\* longest list the cell-average accumulation may build; a longer one is
\* reported as MemoryError
MaxAnswerLen == 81

(***************************************************************************)
(* FieldType and ValueType.                                                *)
(***************************************************************************)
FT_vertexBased == 1
FT_cellBased == 2

FieldTypes == {FT_vertexBased, FT_cellBased}

Scalar == "Scalar"
Vector == "Vector"
Tensor == "Tensor"

ValueTypes == {Scalar, Vector, Tensor}

\* a value type that is none of the three
Other == "Other"

ValueKinds == ValueTypes \cup {Other}

(***************************************************************************)
(* Outcomes of a call.                                                     *)
(***************************************************************************)
Return(v) == [kind |-> "value", exc |-> "", ret |-> v]

ReturnNone == [kind |-> "None", exc |-> "", ret |-> <<>>]

Raise(e) == [kind |-> "raise", exc |-> e, ret |-> <<>>]

Raised(r, e) == r.kind = "raise" /\ r.exc = e

(***************************************************************************)
(* Arithmetic on quotients.                                                *)
(***************************************************************************)
Rat(n, d) == <<n, d>>

RatEq(a, b) == a[1] * b[2] = b[1] * a[2]

\* a sequence of quotients equals a sequence of integers, componentwise
RatSeqEq(q, v) ==
    /\ Len(q) = Len(v)
    /\ \A j \in 1..Len(q) : RatEq(q[j], Rat(v[j], 1))

(***************************************************************************)
(* Python indexing of a list: seq[i] for an int i.  A negative i counts    *)
(* from the end; only an i outside -len .. len-1 raises IndexError.        *)
(***************************************************************************)
IndexInRange(seq, i) == -Len(seq) <= i /\ i < Len(seq)

PyPos(seq, i) == IF i < 0 THEN Len(seq) + i + 1 ELSE i + 1

PyGet(seq, i) == seq[PyPos(seq, i)]

(***************************************************************************)
(* Mesh, Cell and localizer (collaborators, modelled as a 1D mesh).        *)
(* A vertex is [label, coord]; a cell is [label, vertices], vertices being *)
(* the numbers of its two end vertices in the mesh that owns the cell.     *)
(***************************************************************************)
Vtx(l, x) == [label |-> l, coord |-> x]

Cel(l, a, b) == [label |-> l, vertices |-> <<a, b>>]

\* cells [0,2], [2,4] and the overlapping [0,4]
Mesh1 ==
    [vertices |-> <<Vtx(1, 0), Vtx(2, 2), Vtx(3, 4)>>,
     cells |-> <<Cel(1, 0, 1), Cel(2, 1, 2), Cel(4, 0, 2)>>]

\* the zero-length cell [4,4] followed by [4,6]
Mesh2 ==
    [vertices |-> <<Vtx(3, 4), Vtx(4, 4), Vtx(5, 6)>>,
     cells |-> <<Cel(3, 0, 1), Cel(5, 1, 2)>>]

\* the single cell [0,2]
Mesh3 ==
    [vertices |-> <<Vtx(1, 0), Vtx(2, 2)>>,
     cells |-> <<Cel(1, 0, 1)>>]

BaseMeshes == <<Mesh1, Mesh2, Mesh3>>

\* cells [0,2], [0,4] and [2,4] over vertices numbered so that the first
\* cell has the highest-numbered vertex
Mesh4 ==
    [vertices |-> <<Vtx(1, 0), Vtx(2, 4), Vtx(3, 2)>>,
     cells |-> <<Cel(1, 0, 2), Cel(2, 0, 1), Cel(3, 2, 1)>>]

getNumberOfVertices(mesh) == Len(mesh.vertices)

getNumberOfCells(mesh) == Len(mesh.cells)

getVertex(mesh, n) == mesh.vertices[n + 1]

giveCell(mesh, n) == mesh.cells[n + 1]

VertexLabels(mesh) == {mesh.vertices[i].label : i \in 1..Len(mesh.vertices)}

CellLabels(mesh) == {mesh.cells[i].label : i \in 1..Len(mesh.cells)}

vertexLabel2Number(mesh, l) ==
    (CHOOSE i \in 1..Len(mesh.vertices) : mesh.vertices[i].label = l) - 1

cellLabel2Number(mesh, l) ==
    (CHOOSE i \in 1..Len(mesh.cells) : mesh.cells[i].label = l) - 1

\* coordinates of the two ends of cell number n
CellX1(mesh, n) == getVertex(mesh, giveCell(mesh, n).vertices[1]).coord

CellX2(mesh, n) == getVertex(mesh, giveCell(mesh, n).vertices[2]).coord

Min(a, b) == IF a <= b THEN a ELSE b

Max(a, b) == IF a >= b THEN a ELSE b

\* the cell's bounding box meets the box [lo, hi]
BBoxIntersects(mesh, n, lo, hi) ==
    /\ Min(CellX1(mesh, n), CellX2(mesh, n)) <= hi
    /\ Max(CellX1(mesh, n), CellX2(mesh, n)) >= lo

\* the numbers, from n on, of the cells whose bounding box meets [lo, hi]
RECURSIVE FilterBBox(_, _, _, _)
FilterBBox(mesh, n, lo, hi) ==
    IF n >= getNumberOfCells(mesh) THEN <<>>
    ELSE (IF BBoxIntersects(mesh, n, lo, hi) THEN <<n>> ELSE <<>>)
         \o FilterBBox(mesh, n + 1, lo, hi)

\* localizer query: the candidate cells, in cell-number order
giveItemsInBBox(mesh, lo, hi) == FilterBBox(mesh, 0, lo, hi)

\* the point-in-cell test: "in", "out", or "ZeroDivisionError" for a cell of
\* zero length, whose local coordinate (p - x1) / (x2 - x1) cannot be formed
containsPoint(mesh, n, p) ==
    IF CellX1(mesh, n) = CellX2(mesh, n) THEN "ZeroDivisionError"
    ELSE IF Min(CellX1(mesh, n), CellX2(mesh, n)) <= p
            /\ p <= Max(CellX1(mesh, n), CellX2(mesh, n)) THEN "in"
    ELSE "out"

\* linear interpolation of the two vertex records at p, with the weights
\* (x2 - p) / (x2 - x1) and (p - x1) / (x2 - x1); a second record shorter
\* than the first is an IndexError
interpolate(mesh, n, p, vertexValues) ==
    IF Len(vertexValues[2]) < Len(vertexValues[1]) THEN Raise("IndexError")
    ELSE Return([j \in 1..Len(vertexValues[1]) |->
                   Rat(vertexValues[1][j] * (CellX2(mesh, n) - p)
                       + vertexValues[2][j] * (p - CellX1(mesh, n)),
                       CellX2(mesh, n) - CellX1(mesh, n))])

\* Mesh.merge: the union of two meshes, entities identified by label.  The
\* receiver's entities keep their numbers; the entities of other whose label
\* is new are appended in order, their cells' vertices renumbered by label.
NewVertices(mesh, other) ==
    SelectSeq(other.vertices, LAMBDA v : v.label \notin VertexLabels(mesh))

MergedVertices(mesh, other) == mesh.vertices \o NewVertices(mesh, other)

NewCells(mesh, other) ==
    SelectSeq(other.cells, LAMBDA c : c.label \notin CellLabels(mesh))

Renumber(union, other, c) ==
    [label |-> c.label,
     vertices |-> [k \in 1..Len(c.vertices) |->
                     vertexLabel2Number(union,
                                        getVertex(other, c.vertices[k]).label)]]

MeshMerge(mesh, other) ==
    LET vs == MergedVertices(mesh, other)
        un == [vertices |-> vs, cells |-> mesh.cells]
        nc == NewCells(mesh, other)
    IN  [vertices |-> vs,
         cells |-> mesh.cells \o [k \in 1..Len(nc) |-> Renumber(un, other, nc[k])]]


(***************************************************************************)
(* Field.  A field is a record [mesh, fieldID, valueType, units, time,     *)
(* fieldType, values, array]; mesh is a reference into heap, the store of  *)
(* mesh objects, so that two fields may share one mesh object.  array      *)
(* tells whether values is a numpy array (the one the constructor          *)
(* allocates, or a dataset read from a file) or a Python list (supplied    *)
(* by the caller, or built by merge).                                      *)
(***************************************************************************)
\* a variant that takes every unlisted value type for a scalar
getRecordSizeDefault(valueType) ==
    IF valueType = Vector THEN Return(<<3>>)
    ELSE IF valueType = Tensor THEN Return(<<9>>)
    ELSE Return(<<1>>)

getRecordSize(valueType) ==
    IF valueType = Scalar THEN Return(<<1>>)
    ELSE IF valueType = Vector THEN Return(<<3>>)
    ELSE IF valueType = Tensor THEN Return(<<9>>)
    ELSE Raise("ValueError")

\* the record size of a valid value type, as a number
RecordSize(valueType) == getRecordSize(valueType).ret[1]

\* numpy.zeros((n, size))
zeros(n, size) == [i \in 1..n |-> [j \in 1..size |-> 0]]

\* the values argument of the constructor: None, or the rows supplied
NoValues == [given |-> FALSE, rows |-> <<>>, array |-> FALSE]

\* a Python list of value records
Values(rows) == [given |-> TRUE, rows |-> rows, array |-> FALSE]

\* Field.__init__: the constructed field, or the exception of getRecordSize
\* when the zero array is sized.  Supplied values are stored as they are.
Field__init__(h, mesh, fieldID, valueType, units, time, values, fieldType) ==
    LET ncomponents == IF fieldType = FT_vertexBased
                       THEN getNumberOfVertices(h[mesh])
                       ELSE getNumberOfCells(h[mesh])
        new(vals, arr) == [mesh |-> mesh, fieldID |-> fieldID,
                           valueType |-> valueType, units |-> units,
                           time |-> time, fieldType |-> fieldType,
                           values |-> vals, array |-> arr]
    IN  IF ~values.given
        THEN IF getRecordSize(valueType).kind = "raise"
             THEN getRecordSize(valueType)
             ELSE Return(new(zeros(ncomponents, RecordSize(valueType)), TRUE))
        ELSE Return(new(values.rows, values.array))

\* number of entities the field's mesh has for the field's storage mode
EntityCount(h, field) ==
    IF field.fieldType = FT_vertexBased
    THEN getNumberOfVertices(h[field.mesh])
    ELSE getNumberOfCells(h[field.mesh])

(***************************************************************************)
(* Field._evaluate.                                                        *)
(***************************************************************************)
\* a variant that only logs the missing source cell
NoCandidatesSilent(position) == ReturnNone

\* the branch taken when the localizer returns no cell
NoCandidates(position) == Raise("ValueError")

\* the except ZeroDivisionError handler of the vertex scan: it logs, then
\* assigns to the undefined global name cell
ZeroDivisionHandler == Raise("NameError")

\* after the vertex scan found no containing cell: the error is logged, every
\* candidate's containsPoint and glob2loc are evaluated again for the debug
\* log, and the method ends without a return statement
VertexScanExhausted(mesh, cells, position) ==
    IF \E k \in 1..Len(cells) :
          containsPoint(mesh, cells[k], position) = "ZeroDivisionError"
    THEN Raise("ZeroDivisionError")
    ELSE ReturnNone

\* a variant whose except IndexError clause logs and does not raise again
VertexValueLogged(field, mesh, icell, position) ==
    LET verts == giveCell(mesh, icell).vertices
    IN  IF \E k \in 1..Len(verts) : verts[k] >= Len(field.values)
        THEN ReturnNone
        ELSE interpolate(mesh, icell, position,
                         [k \in 1..Len(verts) |-> field.values[verts[k] + 1]])

\* the value of the first candidate that contains the position
VertexValue(field, mesh, icell, position) ==
    LET verts == giveCell(mesh, icell).vertices
    IN  IF \E k \in 1..Len(verts) : verts[k] >= Len(field.values)
        THEN Raise("IndexError")
        ELSE interpolate(mesh, icell, position,
                         [k \in 1..Len(verts) |-> field.values[verts[k] + 1]])

RECURSIVE VertexScan(_, _, _, _, _)
VertexScan(field, mesh, cells, k, position) ==
    IF k > Len(cells) THEN VertexScanExhausted(mesh, cells, position)
    ELSE LET inside == containsPoint(mesh, cells[k], position)
         IN  IF inside = "ZeroDivisionError" THEN ZeroDivisionHandler
             ELSE IF inside = "in"
                  THEN VertexValue(field, mesh, cells[k], position)
             ELSE VertexScan(field, mesh, cells, k + 1, position)

\* [x+y for x in answer for y in tmp]
CartesianSum(answer, tmp) ==
    [n \in 1..(Len(answer) * Len(tmp)) |->
        answer[((n - 1) \div Len(tmp)) + 1] + tmp[((n - 1) % Len(tmp)) + 1]]

\* for i in answer: answer = [x+y for x in answer for y in tmp]
\* The loop runs once per element of the list it started with and rebinds
\* answer each time.  The result is [long, list]: long when a list of more
\* than MaxAnswerLen elements would have to be built.
RECURSIVE Accumulate(_, _, _)
Accumulate(answer, tmp, times) ==
    IF times = 0 THEN [long |-> FALSE, list |-> answer]
    ELSE IF Len(answer) * Len(tmp) > MaxAnswerLen
         THEN [long |-> TRUE, list |-> <<>>]
    ELSE Accumulate(CartesianSum(answer, tmp), tmp, times - 1)

\* after the cell scan
CellScanDone(count, answer) ==
    IF count = 0 THEN ReturnNone
    ELSE Return([j \in 1..Len(answer) |-> Rat(answer[j], count)])

RECURSIVE CellScan(_, _, _, _, _, _, _)
CellScan(field, mesh, cells, k, position, count, answer) ==
    IF k > Len(cells) THEN CellScanDone(count, answer)
    ELSE LET inside == containsPoint(mesh, cells[k], position)
         IN  IF inside = "ZeroDivisionError" THEN Raise("ZeroDivisionError")
             ELSE IF inside = "out"
                  THEN CellScan(field, mesh, cells, k + 1, position, count, answer)
             ELSE IF cells[k] >= Len(field.values) THEN Raise("IndexError")
             ELSE LET tmp == field.values[cells[k] + 1]
                      sum == IF count = 0
                             THEN [long |-> FALSE, list |-> tmp]
                             ELSE Accumulate(answer, tmp, Len(answer))
                  IN  IF sum.long THEN Raise("MemoryError")
                      ELSE CellScan(field, mesh, cells, k + 1, position,
                                    count + 1, sum.list)

_evaluate(h, field, position, eps) ==
    LET mesh == h[field.mesh]
        cells == giveItemsInBBox(mesh, position - eps, position + eps)
    IN  IF Len(cells) > 0
        THEN IF field.fieldType = FT_vertexBased
             THEN VertexScan(field, mesh, cells, 1, position)
             ELSE CellScan(field, mesh, cells, 1, position, 0, <<>>)
        ELSE NoCandidates(position)

(***************************************************************************)
(* Field.evaluate.  A result is the outcome of _evaluate: a value or None. *)
(***************************************************************************)
\* a variant that evaluates the positions of a list without the tolerance
evaluateListExact(h, field, positions, eps) ==
    LET RECURSIVE scan(_, _)
        scan(k, ans) ==
            IF k > Len(positions) THEN Return(ans)
            ELSE LET r == _evaluate(h, field, positions[k], 0)
                 IN  IF r.kind = "raise" THEN r
                     ELSE scan(k + 1, Append(ans, r))
    IN  scan(1, <<>>)

\* the branch for a list of positions: ans collects the result for each
\* position in turn; an exception of _evaluate ends the call
evaluateList(h, field, positions, eps) ==
    LET RECURSIVE scan(_, _)
        scan(k, ans) ==
            IF k > Len(positions) THEN Return(ans)
            ELSE LET r == _evaluate(h, field, positions[k], eps)
                 IN  IF r.kind = "raise" THEN r
                     ELSE scan(k + 1, Append(ans, r))
    IN  scan(1, <<>>)

\* positions is a list of positions, or one position
evaluate(h, field, positions, eps) ==
    IF positions.list THEN evaluateList(h, field, positions.items, eps)
    ELSE _evaluate(h, field, positions.item, eps)

\* the two kinds of argument
OnePosition(p) == [list |-> FALSE, item |-> p, items |-> <<>>]

PositionList(ps) == [list |-> TRUE, item |-> 0, items |-> ps]

(***************************************************************************)
(* Field.giveValue, Field.setValue, Field.commit.                          *)
(***************************************************************************)
giveValue(field, componentID) ==
    IF IndexInRange(field.values, componentID)
    THEN Return(PyGet(field.values, componentID))
    ELSE Raise("IndexError")

\* a variant that remembers the value for a later commit and leaves the
\* value list alone
setValueStaged(field, componentID, value) ==
    [field |-> field,
     result |-> IF IndexInRange(field.values, componentID)
                THEN ReturnNone ELSE Raise("IndexError")]

\* the field after the call, and the call's outcome
setValue(field, componentID, value) ==
    IF IndexInRange(field.values, componentID)
    THEN [field |-> [field EXCEPT
                       !.values[PyPos(field.values, componentID)] = value],
          result |-> ReturnNone]
    ELSE [field |-> field, result |-> Raise("IndexError")]

\* the method has no body
commit(field) == [field |-> field, result |-> ReturnNone]

(***************************************************************************)
(* Field.merge.                                                            *)
(***************************************************************************)
\* a variant that merges into the receiver's own mesh object
NoCopy(h, ref) == [heap |-> h, ref |-> ref]

\* copy.deepcopy(self.mesh): a new mesh object with the same content
deepcopy(h, ref) == [heap |-> Append(h, h[ref]), ref |-> Len(h) + 1]

\* the entry [0] of the list [0]*n that merge allocates: not a value record
Placeholder == <<>>

\* label of entity number v, and number of the entity labelled l, for the
\* entities (vertices or cells) that the field type stores values on
EntityLabel(mesh, fieldType, v) ==
    IF fieldType = FT_vertexBased THEN getVertex(mesh, v).label
    ELSE giveCell(mesh, v).label

Label2Number(mesh, fieldType, l) ==
    IF fieldType = FT_vertexBased THEN vertexLabel2Number(mesh, l)
    ELSE cellLabel2Number(mesh, l)

Count(mesh, fieldType) ==
    IF fieldType = FT_vertexBased THEN getNumberOfVertices(mesh)
    ELSE getNumberOfCells(mesh)

EntityLabels(mesh, fieldType) ==
    {EntityLabel(mesh, fieldType, v) : v \in 0..(Count(mesh, fieldType) - 1)}

\* for v in range(count of src): values[number in mesh of v's label] = srcValues[v]
RECURSIVE WriteValues(_, _, _, _, _, _)
WriteValues(values, mesh, src, srcValues, fieldType, v) ==
    IF v >= Count(src, fieldType) THEN values
    ELSE WriteValues(
           [values EXCEPT ![Label2Number(mesh, fieldType,
                                         EntityLabel(src, fieldType, v)) + 1]
                             = srcValues[v + 1]],
           mesh, src, srcValues, fieldType, v + 1)

\* a variant that writes the argument's values first, the receiver's second
mergeValuesSelfLast(mesh, selfMesh, selfValues, otherMesh, otherValues, fieldType) ==
    WriteValues(
      WriteValues([i \in 1..Count(mesh, fieldType) |-> Placeholder],
                  mesh, otherMesh, otherValues, fieldType, 0),
      mesh, selfMesh, selfValues, fieldType, 0)

\* a variant that sizes the list over the argument's entities but never
\* writes the argument's values
mergeValuesSelfOnly(mesh, selfMesh, selfValues, otherMesh, otherValues, fieldType) ==
    WriteValues([i \in 1..Count(mesh, fieldType) |-> Placeholder],
                mesh, selfMesh, selfValues, fieldType, 0)

\* the value list of the merged field: the receiver's values are written
\* first, the argument's second
mergeValues(mesh, selfMesh, selfValues, otherMesh, otherValues, fieldType) ==
    WriteValues(
      WriteValues([i \in 1..Count(mesh, fieldType) |-> Placeholder],
                  mesh, selfMesh, selfValues, fieldType, 0),
      mesh, otherMesh, otherValues, fieldType, 0)

\* a variant without the type check
AnyFieldType(self, other) == TRUE

\* the type check of merge
SameFieldType(self, other) == self.fieldType = other.fieldType

\* the receiver and the heap after the call, and the call's outcome.  The
\* meshes are merged before the field types are compared; when the call
\* raises, the merged copy is a local object that nothing refers to.
merge(h, self, other) ==
    LET c == deepcopy(h, self.mesh)
        h2 == [c.heap EXCEPT ![c.ref] = MeshMerge(c.heap[c.ref], c.heap[other.mesh])]
        kept == SubSeq(h2, 1, Len(h))
        ft == self.fieldType
    IN  IF ~SameFieldType(self, other)
        THEN [self |-> self, heap |-> kept, result |-> Raise("TypeError")]
        ELSE IF \/ Count(h2[self.mesh], ft) > Len(self.values)
                \/ Count(h2[other.mesh], ft) > Len(other.values)
        THEN [self |-> self, heap |-> kept, result |-> Raise("IndexError")]
        ELSE [self |-> [self EXCEPT
                          !.mesh = c.ref,
                          !.values = mergeValues(h2[c.ref], h2[self.mesh],
                                                 self.values, h2[other.mesh],
                                                 other.values, ft),
                          !.array = FALSE],
              heap |-> h2,
              result |-> ReturnNone]

(***************************************************************************)
(* Field.toHdf5 and Field.makeFromHdf5.  The group of the file is a record *)
(* [meshes, fields]: the subgroups mesh_01, mesh_02, ... and field_01,     *)
(* field_02, ... in the order of their names.                              *)
(***************************************************************************)
EmptyGroup == [meshes |-> <<>>, fields |-> <<>>]

\* Mesh.asHdf5Object and Mesh.makeFromHdf5Object.  A mesh subgroup holds the
\* datasets vertex_coords and cell_vertices and the attribute hash, the digest
\* of those datasets (here the datasets themselves: equal digests mean equal
\* datasets).  Labels are not part of the layout.
MeshDigest(mesh) ==
    <<[k \in 1..Len(mesh.vertices) |-> mesh.vertices[k].coord],
      [k \in 1..Len(mesh.cells) |-> mesh.cells[k].vertices]>>

MeshRecord(mesh) ==
    [hash |-> MeshDigest(mesh),
     vertex_coords |-> MeshDigest(mesh)[1],
     cell_vertices |-> MeshDigest(mesh)[2]]

\* the group after the call and the number of the mesh subgroup returned: the
\* first one with the mesh's digest, or a new one under the lowest unused
\* name mesh_NN
asHdf5Object(group, mesh) ==
    IF \E k \in 1..Len(group.meshes) : group.meshes[k].hash = MeshDigest(mesh)
    THEN [group |-> group,
          mh5 |-> CHOOSE k \in 1..Len(group.meshes) :
                     /\ group.meshes[k].hash = MeshDigest(mesh)
                     /\ \A j \in 1..(k - 1) :
                           group.meshes[j].hash # MeshDigest(mesh)]
    ELSE [group |-> [group EXCEPT !.meshes = Append(@, MeshRecord(mesh))],
          mh5 |-> Len(group.meshes) + 1]

\* the mesh object built from a mesh subgroup; its entities carry their
\* numbers as labels
makeFromHdf5Object(meshObj) ==
    [vertices |-> [k \in 1..Len(meshObj.vertex_coords) |->
                     Vtx(k - 1, meshObj.vertex_coords[k])],
     cells |-> [k \in 1..Len(meshObj.cell_vertices) |->
                  [label |-> k - 1, vertices |-> meshObj.cell_vertices[k]]]]

\* pickle.dumps and pickle.loads of the units
pickle_dumps(obj) == [pickled |-> obj]

pickle_loads(blob) == blob.pickled

\* a Python number written to a dataset of dtype float, and a row of them
Float(n) == Rat(n, 1)

FloatRow(row) == [j \in 1..Len(row) |-> Float(row[j])]

\* the truth value of self.values: a list is true when it is not empty; a
\* numpy array is false when it has no element, has the truth value of its
\* element when it has one, and raises ValueError when it has more
Truth(field) ==
    LET size == IF field.values = <<>> THEN 0
                ELSE Len(field.values) * Len(field.values[1])
    IN  IF ~field.array
        THEN IF Len(field.values) > 0 THEN "True" ELSE "False"
        ELSE IF size = 0 THEN "False"
        ELSE IF size = 1
             THEN IF field.values[1][1] # 0 THEN "True" ELSE "False"
        ELSE "ValueError"

\* val[i] = self.giveValue(i) for i in range(n), val an empty n x size float
\* array: the rows written, or the exception of giveValue or of the
\* assignment (a record of another length than size cannot be broadcast,
\* unless it has one component)
RECURSIVE FillDataset(_, _, _, _)
FillDataset(field, n, size, i) ==
    IF i >= n THEN Return(<<>>)
    ELSE LET v == giveValue(field, i)
         IN  IF v.kind = "raise" THEN v
             ELSE IF Len(v.ret) # size /\ Len(v.ret) # 1
                  THEN Raise("ValueError")
             ELSE LET rest == FillDataset(field, n, size, i + 1)
                      row == IF Len(v.ret) = size THEN FloatRow(v.ret)
                             ELSE [j \in 1..size |-> Float(v.ret[1])]
                  IN  IF rest.kind = "raise" THEN rest
                      ELSE Return(<<row>> \o rest.ret)

\* fieldGrp.attrs['time']=self.fieldID
StoredTime(field) == field.fieldID

\* the subgroup field_NN with its hard link to the mesh subgroup and its
\* attributes, before the values are written
FieldGroup(field, mh5) ==
    [mesh |-> mh5, fieldID |-> field.fieldID, valueType |-> field.valueType,
     units |-> pickle_dumps(field.units), time |-> StoredTime(field),
     dataset |-> "", values |-> <<>>]

\* the group after the call, and the call's outcome.  What was written
\* before an exception stays in the file.
toHdf5(group, h, field) ==
    LET m == asHdf5Object(group, h[field.mesh])
        gg == m.group
        fieldGrp == FieldGroup(field, m.mh5)
        created == [gg EXCEPT !.fields = Append(@, fieldGrp)]
        n == EntityCount(h, field)
        size == getRecordSize(field.valueType)
        val == FillDataset(field, n, size.ret[1], 0)
        name == IF field.fieldType = FT_vertexBased THEN "vertex_values"
                ELSE "cell_values"
    IN  IF Truth(field) = "ValueError"
        THEN [group |-> gg, result |-> Raise("ValueError")]
        ELSE IF Truth(field) = "False"
        THEN [group |-> gg, result |-> ReturnNone]
        ELSE IF field.fieldType \notin FieldTypes
        THEN [group |-> created, result |-> Raise("RuntimeError")]
        ELSE IF size.kind = "raise"
        THEN [group |-> created, result |-> size]
        ELSE IF val.kind = "raise"
        THEN [group |-> created, result |-> val]
        ELSE [group |-> [gg EXCEPT !.fields =
                            Append(@, [fieldGrp EXCEPT !.dataset = name,
                                                       !.values = val.ret])],
              result |-> ReturnNone]

\* the name bound in the branch for cell_values: FieldType has no attribute
\* FT_cellBase
FT_cellBase == Raise("AttributeError")

\* the fields built from the field subgroups k, k+1, ... in the order of
\* their names.  fieldType and values are the local names as bound by the
\* iterations before (bound FALSE before the first binding).  A subgroup
\* without a values dataset binds neither: the ValueError of that branch is
\* constructed and not raised.
RECURSIVE LoadFields(_, _, _, _, _, _)
LoadFields(fieldObjs, meshes, k, bound, fieldType, values) ==
    IF k > Len(fieldObjs) THEN Return(<<>>)
    ELSE LET f == fieldObjs[k]
             isBound == bound \/ f.dataset = "vertex_values"
             ft == IF f.dataset = "vertex_values" THEN FT_vertexBased
                   ELSE fieldType
             vals == IF f.dataset = "vertex_values" THEN f.values ELSE values
             units == pickle_loads(f.units)
             field == [mesh |-> meshes[f.mesh], fieldID |-> f.fieldID,
                       valueType |-> f.valueType,
                       units |-> IF units = "" THEN "None" ELSE units,
                       time |-> f.time, fieldType |-> ft, values |-> vals,
                       array |-> TRUE]
             rest == LoadFields(fieldObjs, meshes, k + 1, isBound, ft, vals)
         IN  IF f.dataset = "cell_values" THEN FT_cellBase
             ELSE IF ~isBound THEN Raise("UnboundLocalError")
             ELSE IF rest.kind = "raise" THEN rest
             ELSE Return(<<field>> \o rest.ret)

\* the heap after the call, and the call's outcome: the list of the fields
\* of the group.  One mesh object is built per mesh subgroup, before the
\* fields are; when the call raises, nothing refers to them.
makeFromHdf5(h, group) ==
    LET meshObjs == group.meshes
        h2 == h \o [k \in 1..Len(meshObjs) |-> makeFromHdf5Object(meshObjs[k])]
        meshes == [k \in 1..Len(meshObjs) |-> Len(h) + k]
        ret == LoadFields(group.fields, meshes, 1, FALSE, FT_vertexBased, <<>>)
    IN  IF ret.kind = "raise" THEN [heap |-> h, result |-> ret]
        ELSE [heap |-> h2, result |-> ret]

(***************************************************************************)
(* The state machine.  fields holds the program's Field objects, heap the  *)
(* mesh objects they refer to.  last is the last call and its outcome,     *)
(* pre the fields and the heap as they were before that call.  hdf is the  *)
(* group of the HDF5 file that fields are stored to.                       *)
(***************************************************************************)
F == {1, 2}

Positions == 1..MaxPos

Tolerances == 0..MaxEps

\* a value record of the value type, told apart by its seed
Row(valueType, seed) == [j \in 1..RecordSize(valueType) |-> 10 * seed + j]

\* the value lists a caller constructs field f with: None, one record per
\* entity, or a list one record short of the mesh
SuppliedRows(f, valueType, n) == [i \in 1..n |-> Row(valueType, 3 * f + i)]

SuppliedArgs(f, valueType, n) ==
    {Values(SuppliedRows(f, valueType, n)),
     Values(SuppliedRows(f, valueType, n - 1))}

ValueArgs(f, valueType, n) == {NoValues} \cup SuppliedArgs(f, valueType, n)

\* the field constructed in slot f on base mesh m
NewField(f, m, valueType, fieldType, values) ==
    Field__init__(BaseMeshes, m, f, valueType, "none", 10 * f, values,
                  fieldType).ret

\* the fields that can be constructed in slot f over the base meshes
Constructed(f) ==
    UNION {{NewField(f, a[1], a[2], a[3], va) :
              va \in ValueArgs(f, a[2], Count(BaseMeshes[a[1]], a[3]))} :
           a \in (1..Len(BaseMeshes)) \X ValueTypes \X FieldTypes}

\* the fields constructed as the second operand of a merge: scalar or
\* vector, with supplied values
Operands(f) ==
    UNION {{NewField(f, a[1], a[2], a[3], va) :
              va \in SuppliedArgs(f, a[2], Count(BaseMeshes[a[1]], a[3]))} :
           a \in (1..Len(BaseMeshes)) \X {Scalar, Vector} \X FieldTypes}

\* a fixed second field: vertex based, scalar, on the single-cell mesh
Companion(f) ==
    NewField(f, 3, Scalar, FT_vertexBased, Values(SuppliedRows(f, Scalar, 2)))

Call(op, f, g, i, v, p, e, r) ==
    [op |-> op, self |-> f, other |-> g, index |-> i, value |-> v,
     position |-> p, eps |-> e, result |-> r]

Snapshot == [fields |-> fields, heap |-> heap, hdf |-> hdf]

Init ==
    /\ heap = BaseMeshes
    /\ \E a \in Constructed(1) : fields = <<a, Companion(2)>>
    /\ last = Call("init", 0, 0, 0, <<>>, 0, 0, ReturnNone)
    /\ hdf = EmptyGroup
    /\ pre = [fields |-> fields, heap |-> heap, hdf |-> hdf]

InitMerge ==
    /\ heap = BaseMeshes
    /\ \E a \in Constructed(1), b \in Operands(2) : fields = <<a, b>>
    /\ last = Call("init", 0, 0, 0, <<>>, 0, 0, ReturnNone)
    /\ hdf = EmptyGroup
    /\ pre = [fields |-> fields, heap |-> heap, hdf |-> hdf]

Evaluate(f, position, eps) ==
    /\ last' = Call("evaluate", f, 0, 0, <<>>, position, eps,
                    _evaluate(heap, fields[f], position, eps))
    /\ pre' = Snapshot
    /\ UNCHANGED <<heap, fields, hdf>>

GiveValue(f, componentID) ==
    /\ last' = Call("giveValue", f, 0, componentID, <<>>, 0, 0,
                    giveValue(fields[f], componentID))
    /\ pre' = Snapshot
    /\ UNCHANGED <<heap, fields, hdf>>

SetValue(f, componentID, value) ==
    LET r == setValue(fields[f], componentID, value)
    IN  /\ fields' = [fields EXCEPT ![f] = r.field]
        /\ last' = Call("setValue", f, 0, componentID, value, 0, 0, r.result)
        /\ pre' = Snapshot
        /\ UNCHANGED <<heap, hdf>>

Commit(f) ==
    LET r == commit(fields[f])
    IN  /\ fields' = [fields EXCEPT ![f] = r.field]
        /\ last' = Call("commit", f, 0, 0, <<>>, 0, 0, r.result)
        /\ pre' = Snapshot
        /\ UNCHANGED <<heap, hdf>>

Merge(f, g) ==
    /\ Len(heap) < Len(BaseMeshes) + MaxMerges
    /\ LET r == merge(heap, fields[f], fields[g])
       IN  /\ fields' = [fields EXCEPT ![f] = r.self]
           /\ heap' = r.heap
           /\ last' = Call("merge", f, g, 0, <<>>, 0, 0, r.result)
           /\ pre' = Snapshot
           /\ UNCHANGED hdf

\* the indices a caller passes: every valid one, and one past either end
Indices(f) == (-(Len(fields[f].values) + 1))..Len(fields[f].values)

\* the record a caller writes
WrittenRows(f) == {Row(fields[f].valueType, 0)}

Next ==
    \/ \E f \in F, p \in Positions, e \in Tolerances : Evaluate(f, p, e)
    \/ \E f \in F : \E i \in Indices(f) : GiveValue(f, i)
    \/ \E f \in F : \E i \in Indices(f) : \E v \in WrittenRows(f) : SetValue(f, i, v)
    \/ \E f \in F : Commit(f)

Spec == Init /\ [][Next]_vars

NextMerge ==
    \/ \E f \in F, g \in F : Merge(f, g)
    \/ \E f \in F : \E i \in Indices(f) : GiveValue(f, i)

SpecMerge == InitMerge /\ [][NextMerge]_vars

(***************************************************************************)
(* Construction of fields by the caller.                                   *)
(***************************************************************************)
\* the value lists a caller supplies for a value type that is none of the
\* three: records of one component
ConstructorValues(f, valueType, n) ==
    IF valueType \in ValueTypes THEN ValueArgs(f, valueType, n)
    ELSE {NoValues, Values([i \in 1..n |-> <<10 * (3 * f + i) + 1>>])}

\* f = Field(mesh, fieldID, valueType, units, time, values, fieldType): the
\* name f is bound only when the constructor returns
Construct(f, m, valueType, fieldType, values) ==
    LET r == Field__init__(heap, m, f, valueType, "none", 10 * f, values,
                           fieldType)
    IN  /\ fields' = IF r.kind = "value" THEN [fields EXCEPT ![f] = r.ret]
                     ELSE fields
        /\ last' = Call("construct", f, 0, 0, <<valueType, values.given>>,
                        0, 0, r)
        /\ pre' = Snapshot
        /\ UNCHANGED <<heap, hdf>>

GetRecordSize(f) ==
    /\ last' = Call("getRecordSize", f, 0, 0, <<>>, 0, 0,
                    getRecordSize(fields[f].valueType))
    /\ pre' = Snapshot
    /\ UNCHANGED <<heap, fields, hdf>>

InitConstruct ==
    /\ heap = BaseMeshes
    /\ fields = <<Companion(1), Companion(2)>>
    /\ last = Call("init", 0, 0, 0, <<>>, 0, 0, ReturnNone)
    /\ hdf = EmptyGroup
    /\ pre = [fields |-> fields, heap |-> heap, hdf |-> hdf]

NextConstruct ==
    \/ \E m \in 1..Len(BaseMeshes), vt \in ValueKinds, ft \in FieldTypes :
          \E va \in ConstructorValues(1, vt, Count(BaseMeshes[m], ft)) :
             Construct(1, m, vt, ft, va)
    \/ \E f \in F : GetRecordSize(f)

SpecConstruct == InitConstruct /\ [][NextConstruct]_vars

\* the record a caller writes at index 0 of field f: one of as many
\* components as the record it replaces
Rewritten(f) ==
    IF fields[f].values = <<>> THEN {}
    ELSE {[j \in 1..Len(fields[f].values[1]) |-> j]}

(***************************************************************************)
(* Evaluation at one position and at lists of positions.                   *)
(***************************************************************************)
ListMeshes == <<Mesh1, Mesh2, Mesh4>>

\* the fields evaluated: on every mesh, scalar or vector, of both field
\* types, with a list of one record per entity or a list one record short
Evaluated(f) ==
    UNION {{Field__init__(ListMeshes, a[1], f, a[2], "none", 10 * f, va,
                          a[3]).ret :
              va \in SuppliedArgs(f, a[2], Count(ListMeshes[a[1]], a[3]))} :
           a \in (1..Len(ListMeshes)) \X {Scalar, Vector} \X FieldTypes}

\* the lists of at most MaxList positions
PositionLists ==
    UNION {[1..n -> Positions] : n \in 0..MaxList}

\* the arguments of evaluate: a position, or a list of positions
PositionArgs ==
    {OnePosition(p) : p \in Positions}
      \cup {PositionList(ps) : ps \in PositionLists}

InitList ==
    /\ heap = ListMeshes
    /\ \E a \in Evaluated(1) : fields = <<a, Companion(2)>>
    /\ last = Call("init", 0, 0, 0, <<>>, 0, 0, ReturnNone)
    /\ hdf = EmptyGroup
    /\ pre = [fields |-> fields, heap |-> heap, hdf |-> hdf]

\* A call that follows another evaluate call leads to the state that the
\* same call leads to from the state before: evaluate changes neither
\* fields nor heap.  Such calls are left out.
EvaluateAt(f, positions, eps) ==
    /\ last.op # "evaluate"
    /\ last' = Call("evaluate", f, 0, 0, <<>>, positions, eps,
                    evaluate(heap, fields[f], positions, eps))
    /\ pre' = Snapshot
    /\ UNCHANGED <<heap, fields, hdf>>

NextList ==
    \/ \E f \in F, ps \in PositionArgs, e \in Tolerances : EvaluateAt(f, ps, e)
    \/ \E v \in Rewritten(1) : SetValue(1, 0, v)

SpecList == InitList /\ [][NextList]_vars

(***************************************************************************)
(* Storing fields to one group of a file and loading the group.            *)
(***************************************************************************)
\* the mesh objects of the fields stored: the second and the third are
\* two objects of the same content
StoreMeshes == <<Mesh1, Mesh3, Mesh3>>

\* the fields constructed in slot 1: on every mesh, of the value types
\* Scalar, Vector and Other, of both field types, without values (when the
\* constructor returns), with a list of one record per entity, or with a
\* list one record short
Stored(f) ==
    UNION {{Field__init__(StoreMeshes, a[1], f, a[2], "none", 10 * f, va,
                          a[3]).ret :
              va \in {v \in ConstructorValues(f, a[2],
                                              Count(StoreMeshes[a[1]], a[3])) :
                        v.given \/ a[2] \in ValueTypes}} :
           a \in (1..Len(StoreMeshes)) \X {Scalar, Vector, Other} \X FieldTypes}

\* the fields constructed in slot 2: scalar, with one record per entity, on
\* either object of the single-cell mesh
StoredWith(f) ==
    {Field__init__(StoreMeshes, m, f, Scalar, "none", 10 * f,
                   Values(SuppliedRows(f, Scalar, Count(StoreMeshes[m], ft))),
                   ft).ret :
       m \in {2, 3}, ft \in FieldTypes}

InitStore ==
    /\ heap = StoreMeshes
    /\ \E a \in Stored(1), b \in StoredWith(2) : fields = <<a, b>>
    /\ last = Call("init", 0, 0, 0, <<>>, 0, 0, ReturnNone)
    /\ hdf = EmptyGroup
    /\ pre = [fields |-> fields, heap |-> heap, hdf |-> hdf]

ToHdf5(f) ==
    /\ Len(hdf.fields) < MaxStores
    /\ LET r == toHdf5(hdf, heap, fields[f])
       IN  /\ hdf' = r.group
           /\ last' = Call("toHdf5", f, 0, 0, <<>>, 0, 0, r.result)
           /\ pre' = Snapshot
           /\ UNCHANGED <<heap, fields>>

MakeFromHdf5 ==
    /\ Len(heap) + Len(hdf.meshes) <= Len(StoreMeshes) + MaxLoaded
    /\ LET r == makeFromHdf5(heap, hdf)
       IN  /\ heap' = r.heap
           /\ last' = Call("makeFromHdf5", 0, 0, 0, <<>>, 0, 0, r.result)
           /\ pre' = Snapshot
           /\ UNCHANGED <<fields, hdf>>

NextStore ==
    \/ \E f \in F : ToHdf5(f)
    \/ MakeFromHdf5
    \/ \E v \in Rewritten(1) : SetValue(1, 0, v)

SpecStore == InitStore /\ [][NextStore]_vars

(***************************************************************************)
(* Properties.  They are stated over last (the call made and its outcome), *)
(* pre (the fields and meshes before the call) and the state after it.     *)
(***************************************************************************)
\* the field a call was made on, before and after the call
Before == pre.fields[last.self]

After == fields[last.self]

\* the argument field of a merge, before the call
Argument == pre.fields[last.other]

\* the field's values have the shape its mesh and value type fix
Consistent(h, field) ==
    /\ field.valueType \in ValueTypes
    /\ Len(field.values) = EntityCount(h, field)
    /\ \A i \in 1..Len(field.values) :
          Len(field.values[i]) = RecordSize(field.valueType)

\* the candidate cells of the last evaluate, and those that contain the position
LastCandidates ==
    giveItemsInBBox(pre.heap[Before.mesh], last.position - last.eps,
                    last.position + last.eps)

LastContaining ==
    SelectSeq(LastCandidates,
              LAMBDA c : containsPoint(pre.heap[Before.mesh], c, last.position) = "in")

NoDegenerateCandidate ==
    \A k \in 1..Len(LastCandidates) :
       containsPoint(pre.heap[Before.mesh], LastCandidates[k], last.position)
         # "ZeroDivisionError"

\* sum of component j of the values of the cells of a sequence
RECURSIVE SumComponent(_, _, _)
SumComponent(values, cells, j) ==
    IF cells = <<>> THEN 0
    ELSE values[Head(cells) + 1][j] + SumComponent(values, Tail(cells), j)

\* C1: evaluating a cell based field of any value type at a position that k >= 1
\* candidate cells contain returns the componentwise mean of those cells'
\* values: as many components as the record size, component j being the sum
\* of the cells' j-th components divided by k.
C1_CellMean ==
    (/\ last.op = "evaluate"
     /\ Before.fieldType = FT_cellBased
     /\ Consistent(pre.heap, Before)
     /\ NoDegenerateCandidate
     /\ Len(LastContaining) >= 1)
    => /\ last.result.kind = "value"
       /\ Len(last.result.ret) = RecordSize(Before.valueType)
       /\ \A j \in 1..RecordSize(Before.valueType) :
             RatEq(last.result.ret[j],
                   Rat(SumComponent(Before.values, LastContaining, j),
                       Len(LastContaining)))

\* C2: when the localizer returns candidates and none contains the position,
\* evaluate raises the no-containing-cell error (ValueError), for both field
\* types; it returns neither a value nor None.
C2_NoContainingCellRaises ==
    (/\ last.op = "evaluate"
     /\ Consistent(pre.heap, Before)
     /\ Len(LastCandidates) > 0
     /\ NoDegenerateCandidate
     /\ Len(LastContaining) = 0)
    => Raised(last.result, "ValueError")

\* C3: when the localizer returns no candidate for the box around the
\* position, evaluate raises the no-containing-cell error (ValueError), for
\* both field types, and leaves every field and mesh as it was.
C3_NoCandidatesRaises ==
    (last.op = "evaluate" /\ Len(LastCandidates) = 0)
    => /\ Raised(last.result, "ValueError")
       /\ fields = pre.fields
       /\ heap = pre.heap

C3_Witness ==
    /\ last.op = "evaluate"
    /\ Len(LastCandidates) = 0
    /\ Before.fieldType = FT_cellBased
    /\ Raised(last.result, "ValueError")

\* the last call was a merge that returned
MergeReturned == last.op = "merge" /\ last.result.kind = "None"

\* the meshes of the receiver and of the argument before the merge, and the
\* receiver's mesh after it
MeshBefore == pre.heap[Before.mesh]

MeshArgument == pre.heap[Argument.mesh]

MeshAfter == heap[After.mesh]

\* the labels of the entities a merge is about, per the receiver's field type
LabelsBefore == EntityLabels(MeshBefore, Before.fieldType)

LabelsArgument == EntityLabels(MeshArgument, Before.fieldType)

\* the value a field holds for the entity labelled l of its mesh
ValueOfLabel(field, mesh, l) ==
    field.values[Label2Number(mesh, field.fieldType, l) + 1]

\* C4: after a merge of two fields of the same field type, the merged field
\* holds, at the union index of every label, the argument's value when the
\* label occurs in the argument's mesh (also when it occurs in both: the
\* argument wins), and the receiver's value when it occurs in the
\* receiver's mesh only.
C4_LastWriterWins ==
    MergeReturned
    => \A l \in LabelsBefore \cup LabelsArgument :
          /\ l \in EntityLabels(MeshAfter, After.fieldType)
          /\ ValueOfLabel(After, MeshAfter, l)
               = IF l \in LabelsArgument
                 THEN ValueOfLabel(Argument, MeshArgument, l)
                 ELSE ValueOfLabel(Before, MeshBefore, l)

C4_Witness ==
    /\ MergeReturned
    /\ last.self # last.other
    /\ \E l \in LabelsBefore \cap LabelsArgument :
          /\ ValueOfLabel(Before, MeshBefore, l)
               # ValueOfLabel(Argument, MeshArgument, l)
          /\ ValueOfLabel(After, MeshAfter, l)
               = ValueOfLabel(Argument, MeshArgument, l)

\* C5: after a merge of two fields of the same field type whose entity labels
\* are disjoint, the merged value list is as long as the two inputs' entity
\* counts together, giveValue at the union index of every input entity's
\* label returns that entity's original value, and no entry is the
\* placeholder.
C5_DisjointMerge ==
    (MergeReturned /\ LabelsBefore \cap LabelsArgument = {})
    => /\ Len(After.values)
            = Count(MeshBefore, Before.fieldType)
              + Count(MeshArgument, Before.fieldType)
       /\ \A v \in 0..(Count(MeshBefore, Before.fieldType) - 1) :
             giveValue(After, Label2Number(MeshAfter, After.fieldType,
                         EntityLabel(MeshBefore, Before.fieldType, v)))
               = Return(Before.values[v + 1])
       /\ \A v \in 0..(Count(MeshArgument, Before.fieldType) - 1) :
             giveValue(After, Label2Number(MeshAfter, After.fieldType,
                         EntityLabel(MeshArgument, Before.fieldType, v)))
               = Return(Argument.values[v + 1])
       /\ \A i \in 1..Len(After.values) : After.values[i] # Placeholder

C5_Witness ==
    /\ MergeReturned
    /\ LabelsBefore \cap LabelsArgument = {}
    /\ Len(After.values) = Len(Before.values) + Len(Argument.values)
    /\ Len(Before.values) > 0
    /\ Len(Argument.values) > 0

\* C6: a merge of two fields of different field types raises the
\* incompatible-field-type error (TypeError) and leaves the values and the
\* meshes of both fields exactly as they were.
C6_IncompatibleFieldType ==
    (last.op = "merge" /\ Before.fieldType # Argument.fieldType)
    => /\ Raised(last.result, "TypeError")
       /\ fields = pre.fields
       /\ heap = pre.heap

C6_Witness ==
    /\ last.op = "merge"
    /\ Before.fieldType # Argument.fieldType
    /\ Raised(last.result, "TypeError")
    /\ MeshBefore # MeshMerge(MeshBefore, MeshArgument)

\* C7: a merge that returns changes the receiver's mesh reference and values
\* and nothing else: every other field is as before, every mesh object that
\* existed before the merge (the receiver's old mesh and the argument's mesh
\* among them) has the content it had, and the receiver's new mesh is an
\* object that did not exist before.
C7_CopyOnMerge ==
    MergeReturned
    => /\ \A g \in F \ {last.self} : fields[g] = pre.fields[g]
       /\ After = [Before EXCEPT !.mesh = After.mesh, !.values = After.values,
                                 !.array = After.array]
       /\ Len(heap) >= Len(pre.heap)
       /\ \A r \in 1..Len(pre.heap) : heap[r] = pre.heap[r]
       /\ After.mesh \notin 1..Len(pre.heap)

C7_Witness ==
    /\ MergeReturned
    /\ last.self # last.other
    /\ MeshAfter # MeshBefore
    /\ heap[Before.mesh] = MeshBefore
    /\ fields[last.other] = Argument

\* C8: the value list has the shape that the mesh and the value type fix (one
\* record per vertex or per cell, every record of the record size) in every
\* state reached by construction, setValue and merges that return.  Stated
\* as what that requires of each call: made when every field has the shape,
\* the call leaves every field with the shape.
C8_ShapeInvariant ==
    (\A f \in F : Consistent(pre.heap, pre.fields[f]))
    => \A f \in F : Consistent(heap, fields[f])

\* C9: giveValue and setValue raise the index-out-of-range error (IndexError)
\* for every index outside 0 .. number of entities - 1, negative indices and
\* the number of entities itself included, and a setValue that fails leaves
\* the value list unchanged (checked on fields whose value list has one
\* record per entity).
C9_IndexOutOfRange ==
    (/\ last.op \in {"giveValue", "setValue"}
     /\ Consistent(pre.heap, Before)
     /\ (last.index < 0 \/ last.index >= Len(Before.values)))
    => /\ Raised(last.result, "IndexError")
       /\ fields = pre.fields

\* the last call was a setValue at a valid index
ValidWrite ==
    /\ last.op = "setValue"
    /\ 0 <= last.index
    /\ last.index < Len(Before.values)

\* evaluating the field, after the write, at position p meets the written
\* entity: for a vertex based field the first candidate that contains p has
\* the written vertex as an end lying at p; for a cell based field the
\* written cell is the only candidate that contains p
MeetsWritten(p) ==
    LET mesh == heap[After.mesh]
        cells == giveItemsInBBox(mesh, p, p)
        inside == SelectSeq(cells, LAMBDA c : containsPoint(mesh, c, p) = "in")
    IN  /\ Consistent(heap, After)
        /\ \A k \in 1..Len(cells) :
              containsPoint(mesh, cells[k], p) # "ZeroDivisionError"
        /\ inside # <<>>
        /\ IF After.fieldType = FT_vertexBased
           THEN \E k \in 1..2 :
                   /\ giveCell(mesh, inside[1]).vertices[k] = last.index
                   /\ getVertex(mesh, last.index).coord = p
           ELSE inside = <<last.index>>

ConstructedType == last.value[1]

ValuesGiven == last.value[2]

\* C11: getRecordSize returns 1 for Scalar, 3 for Vector and 9 for Tensor and
\* raises the invalid-value-type error (ValueError) for every other value
\* type; constructing a field without values and with such a value type
\* raises that error and binds no field, and with one of the three value
\* types gives every entity a record of the size getRecordSize returns.
C11_RecordSize ==
    /\ last.op = "getRecordSize"
       => last.result = IF Before.valueType = Scalar THEN Return(<<1>>)
                        ELSE IF Before.valueType = Vector THEN Return(<<3>>)
                        ELSE IF Before.valueType = Tensor THEN Return(<<9>>)
                        ELSE Raise("ValueError")
    /\ (last.op = "construct" /\ ~ValuesGiven)
       => IF ConstructedType \in ValueTypes
          THEN /\ last.result.kind = "value"
               /\ After = last.result.ret
               /\ Len(After.values) = EntityCount(heap, After)
               /\ \A i \in 1..Len(After.values) :
                     Return(<<Len(After.values[i])>>)
                       = getRecordSize(ConstructedType)
          ELSE /\ Raised(last.result, "ValueError")
               /\ fields = pre.fields

C11_Witness ==
    /\ last.op = "construct"
    /\ ~ValuesGiven
    /\ ConstructedType = Other
    /\ Raised(last.result, "ValueError")
    /\ Before.valueType = Other
    /\ After = Before


\* the last call was a toHdf5 that returned and wrote a field subgroup
FieldStored ==
    /\ last.op = "toHdf5"
    /\ last.result.kind = "None"
    /\ Len(hdf.fields) = Len(pre.hdf.fields) + 1

\* what loading the group gives, in the state after the call
LoadedNow == makeFromHdf5(heap, hdf).result

\* rows of floats equal rows of numbers
SameValues(floats, rows) ==
    /\ Len(floats) = Len(rows)
    /\ \A i \in 1..Len(rows) : RatSeqEq(floats[i], rows[i])

\* C12: after toHdf5 has stored a field, makeFromHdf5 returns the fields of
\* the group, and the one built from the subgroup just written has the
\* stored field's values, time, value type, field type and fieldID, for
\* vertex based and for cell based fields.
C12_RoundTrip ==
    FieldStored
    => /\ LoadedNow.kind = "value"
       /\ Len(LoadedNow.ret) = Len(hdf.fields)
       /\ LET g == LoadedNow.ret[Len(hdf.fields)]
          IN  /\ SameValues(g.values, Before.values)
              /\ g.time = Before.time
              /\ g.valueType = Before.valueType
              /\ g.fieldType = Before.fieldType
              /\ g.fieldID = Before.fieldID


\* the digests of the mesh subgroups of a group
Digests(group) == {group.meshes[k].hash : k \in 1..Len(group.meshes)}

\* the mesh subgroups are as many as the distinct meshes stored: no two have
\* one digest, and a toHdf5 adds the digest of its field's mesh and no other
OneRecordPerMesh ==
    /\ Cardinality(Digests(hdf)) = Len(hdf.meshes)
    /\ last.op = "toHdf5"
       => Digests(hdf)
            = Digests(pre.hdf) \cup {MeshDigest(pre.heap[Before.mesh])}

\* every field subgroup links one mesh subgroup of the group, the one just
\* written that of its field's mesh
OneMeshPerField ==
    /\ \A k \in 1..Len(hdf.fields) : hdf.fields[k].mesh \in 1..Len(hdf.meshes)
    /\ FieldStored
       => hdf.meshes[hdf.fields[Len(hdf.fields)].mesh].hash
            = MeshDigest(pre.heap[Before.mesh])

\* the loaded fields share mesh objects as their subgroups share mesh
\* subgroups, and the objects are new ones with the stored geometry
SharingRestored(loaded) ==
    /\ Len(loaded) = Len(hdf.fields)
    /\ \A i \in 1..Len(loaded) :
          /\ loaded[i].mesh \in (Len(pre.heap) + 1)..Len(heap)
          /\ MeshDigest(heap[loaded[i].mesh])
               = hdf.meshes[hdf.fields[i].mesh].hash
          /\ \A j \in 1..Len(loaded) :
                (loaded[i].mesh = loaded[j].mesh)
                  <=> (hdf.fields[i].mesh = hdf.fields[j].mesh)

\* C13: after any sequence of toHdf5 calls into one group the group holds one
\* mesh subgroup per distinct mesh stored (by digest), every field subgroup
\* links exactly one of them, and makeFromHdf5 returns the group's fields,
\* two of them referring to one mesh object exactly when their subgroups
\* link one mesh subgroup.
C13_SharedMeshes ==
    /\ OneRecordPerMesh
    /\ OneMeshPerField
    /\ last.op = "makeFromHdf5"
       => /\ last.result.kind = "value"
          /\ SharingRestored(last.result.ret)


\* some candidate of the last evaluate is degenerate
DegenerateCandidate == ~NoDegenerateCandidate

\* C14: when a candidate of a vertex based field is degenerate (its
\* containment test divides by zero), evaluate passes over it: it returns the
\* interpolated value of the first candidate that contains the position,
\* and raises the no-containing-cell error (ValueError), and no other, when
\* none does.
C14_DegenerateSkipped ==
    (/\ last.op = "evaluate"
     /\ Before.fieldType = FT_vertexBased
     /\ Consistent(pre.heap, Before)
     /\ DegenerateCandidate)
    => IF LastContaining # <<>>
       THEN last.result = VertexValue(Before, pre.heap[Before.mesh],
                                      LastContaining[1], last.position)
       ELSE Raised(last.result, "ValueError")


\* the field with the record of every vertex that is not a vertex of cell c
\* replaced by a record of zeros
OnlyCell(field, mesh, c) ==
    [field EXCEPT !.values =
       [i \in 1..Len(field.values) |->
          IF \E k \in 1..2 : giveCell(mesh, c).vertices[k] = i - 1
          THEN field.values[i]
          ELSE [j \in 1..Len(field.values[i]) |-> 0]]]

\* C15: evaluate of a vertex based field returns the interpolation over the
\* vertex values of the first candidate, in the localizer's order, that
\* contains the position; the values at the vertices of the other candidates
\* have no part in the result.
C15_FirstMatch ==
    (/\ last.op = "evaluate"
     /\ Before.fieldType = FT_vertexBased
     /\ Consistent(pre.heap, Before)
     /\ LastContaining # <<>>)
    => /\ last.result.kind = "value"
       /\ last.result = VertexValue(Before, pre.heap[Before.mesh],
                                    LastContaining[1], last.position)
       /\ last.result = _evaluate(pre.heap,
                                  OnlyCell(Before, pre.heap[Before.mesh],
                                           LastContaining[1]),
                                  last.position, last.eps)


\* the last call was an evaluate of one position; its mesh, position and
\* candidates
OneEvaluated == last.op = "evaluate" /\ ~last.position.list

MeshEvaluated == pre.heap[Before.mesh]

PositionEvaluated == last.position.item

Candidates ==
    giveItemsInBBox(MeshEvaluated, PositionEvaluated - last.eps,
                    PositionEvaluated + last.eps)

\* candidate k contains the position, and the value list has no entry for
\* it (cell based) or for one of its vertices (vertex based)
Unstored(k) ==
    /\ containsPoint(MeshEvaluated, Candidates[k], PositionEvaluated) = "in"
    /\ IF Before.fieldType = FT_vertexBased
       THEN \E v \in 1..2 :
               giveCell(MeshEvaluated, Candidates[k]).vertices[v]
                 >= Len(Before.values)
       ELSE Candidates[k] >= Len(Before.values)

\* the scan gets as far as retrieving the value of candidate k: of a vertex
\* based field when no candidate before k contains the position or is
\* degenerate, of a cell based field when the scan of the candidates before
\* k does not raise
Retrieved(k) ==
    IF Before.fieldType = FT_vertexBased
    THEN \A j \in 1..(k - 1) :
            containsPoint(MeshEvaluated, Candidates[j], PositionEvaluated)
              = "out"
    ELSE CellScan(Before, MeshEvaluated, SubSeq(Candidates, 1, k - 1), 1,
                  PositionEvaluated, 0, <<>>).kind # "raise"

\* a candidate after k contains the position and has its values stored
LaterStored(k) ==
    \E j \in (k + 1)..Len(Candidates) :
       /\ containsPoint(MeshEvaluated, Candidates[j], PositionEvaluated) = "in"
       /\ ~Unstored(j)

\* C16: when evaluate retrieves the value of a containing candidate and the
\* value list has no entry at the cell's or a vertex's index, evaluate
\* raises the inconsistent-data error (IndexError), for both field types:
\* it returns no value, whatever later candidates would give, and changes
\* nothing.
C16_InconsistentData ==
    (OneEvaluated /\ \E k \in 1..Len(Candidates) : Unstored(k) /\ Retrieved(k))
    => /\ Raised(last.result, "IndexError")
       /\ fields = pre.fields
       /\ heap = pre.heap

C16_Witness ==
    /\ OneEvaluated
    /\ Before.fieldType = FT_vertexBased
    /\ \E k \in 1..Len(Candidates) :
          Unstored(k) /\ Retrieved(k) /\ LaterStored(k)
    /\ Raised(last.result, "IndexError")

\* the last call was an evaluate of a list of positions
ListEvaluated == last.op = "evaluate" /\ last.position.list

\* what evaluate gave, before the last call, for position k of its list alone
Alone(k) ==
    evaluate(pre.heap, Before, OnePosition(last.position.items[k]), last.eps)

\* C17: evaluate of a list of n positions returns a list of n results, the
\* k-th being what evaluate returns for the k-th position alone with the
\* same tolerance (when evaluate raises for one of them alone, the call
\* raises what the first such one raises); no evaluate call, of one position
\* or of a list, changes a field or a mesh.
C17_ListEvaluate ==
    /\ last.op = "evaluate" => fields = pre.fields /\ heap = pre.heap
    /\ ListEvaluated
       => LET n == Len(last.position.items)
              raising == {k \in 1..n : Alone(k).kind = "raise"}
          IN  IF raising = {}
              THEN /\ last.result.kind = "value"
                   /\ Len(last.result.ret) = n
                   /\ \A k \in 1..n : last.result.ret[k] = Alone(k)
              ELSE \E k \in raising :
                      /\ \A j \in raising : k <= j
                      /\ last.result = Alone(k)

C17_Witness ==
    /\ ListEvaluated
    /\ last.eps > 0
    /\ last.result.kind = "value"
    /\ Len(last.result.ret) = 2
    /\ last.result.ret[1].kind = "value"
    /\ last.result.ret[2].kind = "None"
    /\ last.result.ret[1] = Alone(1)
    /\ _evaluate(pre.heap, Before, last.position.items[2], 0).kind = "raise"

=============================================================================
